---- MODULE Spec2Model ----
(***************************************************************************)
(* PeerNet: the room session engine (ChatRoom: JoinChatRoom, publishLoop,  *)
(* subscribeLoop, Exit, UpdateUser) and the event multiplexer of the UI    *)
(* (handleEvents, processCommand, switchRoom, the input field).            *)
(*                                                                         *)
(* A Go string is a sequence of one-character strings, a buffered channel  *)
(* is a sequence bounded by its capacity, and every goroutine is a process *)
(* with a program counter that stops at each blocking operation.  The      *)
(* pubsub substrate and the display toolkit are the environment: they are  *)
(* modelled by the interface the code uses.                                *)
(***************************************************************************)
EXTENDS Integers, Sequences, FiniteSets, TLC

(* ------------------------------ bounds -------------------------------- *)
\* sessions that can be created in one run (the first one included)
MaxSessions == 2
\* lines the user commits in the input field in one run
MaxLines == 2
\* payloads other peers hand to this host in one run
MaxNet == 2
\* payloads the substrate buffers for one subscription before dropping
MaxSubQ == 1
\* receives from a closed inbound channel that one run follows
MaxZeroReads == 1
\* Exit calls a direct caller makes on one session
MaxExitCalls == 2
\* texts a direct caller sends on Outbound
MaxSends == 1
\* events after the cancellation that are counted: the last value stands for
\* that many or more
MaxLate == 2
\* lines the user commits in one run of the rename path
MaxRenameLines == 3

(* ------------------------- program constants -------------------------- *)
\* make(chan ..., 1): Inbound, Outbound, Logs, MsgInputs, CmdInputs
ChanCap == 1

(* ------------------------------ strings ------------------------------- *)
Lobby == <<"l", "o", "b", "b", "y">>
Hub == <<"h", "u", "b">>
User == <<"u", "s", "e", "r">>
Bob == <<"b", "o", "b">>
Hi == <<"h", "i">>
Yo == <<"y", "o">>
SelfID == <<"Q", "m", "S">>
OtherID == <<"Q", "m", "P">>
TopicPrefix == <<"r", "o", "o", "m", "-", "p", "e", "e", "r", "c", "h", "a", "t", "-">>
CmdExit == <<"/", "e", "x", "i", "t">>
CmdClear == <<"/", "c", "l", "e", "a", "r">>
CmdRoom == <<"/", "r", "o", "o", "m">>
CmdUser == <<"/", "u", "s", "e", "r">>
CmdNope == <<"/", "n", "o", "p", "e">>
Space == <<" ">>

\* fmt.Sprintf("room-peerchat-%s", roomName)
TopicName(roomName) == TopicPrefix \o roomName

(* --------------------------- message codec ---------------------------- *)
\* the zero value of chatMessage
ZeroMsg == [Message |-> <<>>, SenderID |-> <<>>, SenderName |-> <<>>]

\* json.Marshal of a chatMessage: an object with the keys of the json tags
Marshal(chatMsg) ==
    [syntax |-> "object",
     members |-> {<<"message", chatMsg.Message>>,
                  <<"senderid", chatMsg.SenderID>>,
                  <<"sendername", chatMsg.SenderName>>}]

\* bytes that are no JSON text at all
Garbage == [syntax |-> "invalid", members |-> {}]

\* the value of a key of a JSON object, the zero value when the key is absent
Member(data, key) ==
    IF \E p \in data.members : p[1] = key
    THEN (CHOOSE p \in data.members : p[1] = key)[2]
    ELSE <<>>

\* json.Unmarshal into a chatMessage: err is TRUE for bytes that do not parse
Unmarshal(data) ==
    IF data.syntax = "object"
    THEN [err |-> FALSE,
          msg |-> [Message |-> Member(data, "message"),
                   SenderID |-> Member(data, "senderid"),
                   SenderName |-> Member(data, "sendername")]]
    ELSE [err |-> TRUE, msg |-> ZeroMsg]

(* ------------------------------- state -------------------------------- *)
VARIABLES
    cr,          \* the ChatRoom objects, by creation order
    nCr,         \* how many ChatRoom objects JoinChatRoom has returned
    subPc,       \* subscribeLoop of each session: where it is
    subMsg,      \* subscribeLoop: the decoded message it is about to forward
    pubPc,       \* publishLoop of each session: where it is
    psTopics,    \* substrate: topic names this host holds an open handle of
    subQ,        \* substrate: payloads buffered for each subscription
    nNet,        \* payloads other peers have handed over so far
    active,      \* ui.ChatRoom: the embedded session of the UI
    uiPc,        \* handleEvents: where it is
    uiLog,       \* handleEvents: the log it is about to send
    uiArg,       \* switchRoom: roomName
    uiNew,       \* switchRoom: newChatRoom
    uiMsg,       \* handleEvents: the user message it is about to forward
    MsgInputs,   \* ui.MsgInputs
    CmdInputs,   \* ui.CmdInputs
    MessageBox,  \* the lines of the message box
    boxTitle,    \* the title of the message box
    InputLabel,  \* the label of the input field
    appStopped,  \* App.Stop() was called
    nLines,      \* lines the user has committed (texts a caller has sent) so far
    zeroReads,   \* receives from a closed Inbound so far
    exited,      \* main has returned: the process is gone
    apiPc,       \* a direct caller of the package: where it is in Exit
    apiSess,     \* a direct caller of the package: the session it exits
    enqueued,    \* history, by session: texts sent on Outbound
    published,   \* history, by session: payloads published to the topic
    received,    \* history, by session: payloads psSub.Next returned
    delivered,   \* history, by session: messages sent on Inbound
    shown,       \* history, by session: messages received from Inbound
    logged,      \* history, by session: logs sent on Logs, and by whom
    exits,       \* history, by session: the statements of Exit executed
    typed,       \* history: the lines the user committed
    echoed,      \* history, by session: UserName when each text was sent on Outbound
    lateEvents   \* events handleEvents took after psCtx was cancelled

vars == <<cr, nCr, subPc, subMsg, pubPc, psTopics, subQ, nNet, active, uiPc,
          uiLog, uiArg, uiNew, uiMsg, exited, apiPc, apiSess, MsgInputs, CmdInputs, MessageBox, boxTitle,
          InputLabel, appStopped, nLines, zeroReads, enqueued,
          published, received, delivered, shown, logged, exits,
          typed, echoed, lateEvents>>

sessVars == <<cr, subPc, subMsg, pubPc, subQ>>
uiVars == <<active, uiPc, uiLog, uiArg, uiNew, uiMsg, exited, apiPc, apiSess, MsgInputs, CmdInputs, MessageBox,
            boxTitle, InputLabel, appStopped, nLines, zeroReads>>
histVars == <<enqueued, published, received, delivered, shown, logged, exits>>
auxVars == <<lateEvents, typed, echoed>>

Sessions == 1..MaxSessions
Live == 1..nCr


(* ------------------------------ channels ------------------------------ *)
\* the channel made without a buffer and nobody receiving
CanSendUnbuffered(ch) == Len(ch) < 0

\* a send on a buffered channel can proceed
CanSend(ch) == Len(ch) < ChanCap

\* chatLog{Prefix, Msg}; Msg is a fixed text followed by the formatted value
chatLog(prefix, text, value) == [Prefix |-> prefix, Msg |-> <<text>> \o value]

(* ------------------------------ ChatRoom ------------------------------ *)
\* the ChatRoom literal of JoinChatRoom.  inCloses counts the close(Inbound)
\* executed (a second one panics in Go); ctxDone, subCancelled, topicClosed
\* are the states of psCtx, psSub and psTopic
NewChatRoom(username, roomName) ==
    [Inbound |-> <<>>, Outbound |-> <<>>, Logs |-> <<>>,
     RoomName |-> roomName, UserName |-> username, selfID |-> SelfID,
     inCloses |-> 0, closeCause |-> "none",
     ctxDone |-> FALSE, subCancelled |-> FALSE, topicClosed |-> FALSE]

\* a slot of cr that holds no session yet
NoRoom == NewChatRoom(<<>>, <<>>)

\* what p2pHost.PubSub.Join and topic.Subscribe can answer for a room: Join
\* refuses a topic this host already holds a handle of
JoinOutcomes(roomName) ==
    IF TopicName(roomName) \in psTopics
    THEN {"joinErr"}
    ELSE {"ok", "joinErr", "subErr"}

\* a join that builds the session and starts its loops before it subscribes
JoinChatRoomPartial(username, roomName, outcome) ==
    /\ outcome \in JoinOutcomes(roomName)
    /\ IF outcome \in {"ok", "subErr"}
       THEN /\ nCr < MaxSessions
            /\ nCr' = nCr + 1
            /\ cr' = [cr EXCEPT ![nCr + 1] = NewChatRoom(username, roomName)]
            /\ subPc' = [subPc EXCEPT ![nCr + 1] = "top"]
            /\ pubPc' = [pubPc EXCEPT ![nCr + 1] = "select"]
            /\ psTopics' = psTopics \cup {TopicName(roomName)}
       ELSE UNCHANGED <<nCr, cr, subPc, pubPc, psTopics>>

\* JoinChatRoom(p2pHost, username, roomName) with the substrate answering
\* `outcome`: the new object is cr'[nCr + 1] when it succeeds
JoinChatRoom(username, roomName, outcome) ==
    /\ outcome \in JoinOutcomes(roomName)
    /\ IF outcome = "ok"
       THEN /\ nCr < MaxSessions
            /\ nCr' = nCr + 1
            /\ cr' = [cr EXCEPT ![nCr + 1] = NewChatRoom(username, roomName)]
            /\ subPc' = [subPc EXCEPT ![nCr + 1] = "top"]
            /\ pubPc' = [pubPc EXCEPT ![nCr + 1] = "select"]
            /\ psTopics' = psTopics \cup {TopicName(roomName)}
       ELSE /\ UNCHANGED <<nCr, cr, subPc, pubPc>>
            /\ psTopics' = IF outcome = "subErr"
                           THEN psTopics \cup {TopicName(roomName)}
                           ELSE psTopics

(* ---------------------------- subscribeLoop --------------------------- *)
\* close(cr.Inbound); return
CloseInbound(room, cause) ==
    [room EXCEPT !.inCloses = @ + 1, !.closeCause = cause]

\* the cancellation case closing Inbound without the return
SubTopCloseAndContinue(s) ==
    /\ subPc[s] = "top"
    /\ IF cr[s].ctxDone
       THEN /\ cr' = [cr EXCEPT ![s] = CloseInbound(@, "cancel")]
            /\ UNCHANGED subPc
       ELSE /\ subPc' = [subPc EXCEPT ![s] = "next"]
            /\ UNCHANGED cr
    /\ UNCHANGED <<auxVars, nCr, subMsg, pubPc, psTopics, subQ, nNet, uiVars, histVars>>

\* select { case <-cr.psCtx.Done(): close; return   default: psSub.Next }
SubTop(s) ==
    /\ subPc[s] = "top"
    /\ IF cr[s].ctxDone
       THEN /\ cr' = [cr EXCEPT ![s] = CloseInbound(@, "cancel")]
            /\ subPc' = [subPc EXCEPT ![s] = "done"]
       ELSE /\ subPc' = [subPc EXCEPT ![s] = "next"]
            /\ UNCHANGED cr
    /\ UNCHANGED <<auxVars, nCr, subMsg, pubPc, psTopics, subQ, nNet, uiVars, histVars>>

\* the decode error ignored: whatever was decoded goes to Inbound
SubAfterReadIgnoringError(room, payload) ==
    IF payload.ReceivedFrom = room.selfID THEN "top" ELSE "deliver"

\* where the loop goes with the payload psSub.Next returned
SubAfterRead(room, payload) ==
    IF payload.ReceivedFrom = room.selfID THEN "top"
    ELSE IF Unmarshal(payload.Data).err THEN "logUnmarshal"
    ELSE "deliver"

\* msg, err := cr.psSub.Next(cr.psCtx) returns a payload: self filter, decode
SubNextMsg(s) ==
    /\ subPc[s] = "next"
    /\ subQ[s] # <<>>
    /\ LET payload == Head(subQ[s]) IN
        /\ subQ' = [subQ EXCEPT ![s] = Tail(@)]
        /\ received' = [received EXCEPT ![s] = Append(@, payload)]
        /\ subPc' = [subPc EXCEPT ![s] = SubAfterRead(cr[s], payload)]
        /\ subMsg' = [subMsg EXCEPT ![s] =
                        IF SubAfterRead(cr[s], payload) = "deliver"
                        THEN Unmarshal(payload.Data).msg
                        ELSE ZeroMsg]
    /\ UNCHANGED <<auxVars, cr, nCr, pubPc, psTopics, nNet, uiVars, enqueued, published,
                   delivered, shown, logged, exits>>

\* psSub.Next returns an error: the context is done, or the subscription is
\* cancelled and its buffer is drained
SubNextErr(s) ==
    /\ subPc[s] = "next"
    /\ cr[s].ctxDone \/ (cr[s].subCancelled /\ subQ[s] = <<>>)
    /\ subPc' = [subPc EXCEPT ![s] = "logClosed"]
    /\ UNCHANGED <<auxVars, cr, nCr, subMsg, pubPc, psTopics, subQ, nNet, uiVars, histVars>>

\* cr.Logs <- chatLog{"suberr", ...}; then continue, or close and return
SubSendLog(s) ==
    /\ subPc[s] \in {"logUnmarshal", "logClosed"}
    /\ CanSend(cr[s].Logs)
    /\ LET log == IF subPc[s] = "logClosed"
                  THEN chatLog("suberr", "subscription closed", <<>>)
                  ELSE chatLog("suberr", "failed to unmarshal JSON", <<>>)
           sent == [cr[s] EXCEPT !.Logs = Append(@, log)]
       IN /\ cr' = [cr EXCEPT ![s] = IF subPc[s] = "logClosed"
                                     THEN CloseInbound(sent, "suberr")
                                     ELSE sent]
          /\ logged' = [logged EXCEPT ![s] = Append(@, [by |-> "sub", log |-> log])]
    /\ subPc' = [subPc EXCEPT ![s] = IF subPc[s] = "logClosed" THEN "done" ELSE "top"]
    /\ UNCHANGED <<auxVars, nCr, subMsg, pubPc, psTopics, subQ, nNet, uiVars, enqueued,
                   published, received, delivered, shown, exits>>

\* cr.Inbound <- chatMsg
SubDeliver(s) ==
    /\ subPc[s] = "deliver"
    /\ CanSend(cr[s].Inbound)
    /\ cr' = [cr EXCEPT ![s].Inbound = Append(@, subMsg[s])]
    /\ delivered' = [delivered EXCEPT ![s] = Append(@, subMsg[s])]
    /\ subPc' = [subPc EXCEPT ![s] = "top"]
    /\ subMsg' = [subMsg EXCEPT ![s] = ZeroMsg]
    /\ UNCHANGED <<auxVars, nCr, pubPc, psTopics, subQ, nNet, uiVars, enqueued,
                   published, received, shown, logged, exits>>

subscribeLoop(s) ==
    SubTop(s) \/ SubNextMsg(s) \/ SubNextErr(s) \/ SubSendLog(s) \/ SubDeliver(s)

(* ----------------------------- publishLoop ---------------------------- *)
\* case <-cr.psCtx.Done(): return
PubDone(s) ==
    /\ pubPc[s] = "select"
    /\ cr[s].ctxDone
    /\ pubPc' = [pubPc EXCEPT ![s] = "done"]
    /\ UNCHANGED <<auxVars, cr, nCr, subPc, subMsg, psTopics, subQ, nNet, uiVars, histVars>>

\* the envelope of an outbound text: the name is read when the text is taken
Envelope(room, message) ==
    [Message |-> message, SenderID |-> room.selfID, SenderName |-> room.UserName]

\* the substrate hands a published payload to the publisher's own
\* subscription, unless that is cancelled or its buffer is full
LocalEcho(q, room, data) ==
    IF ~room.subCancelled /\ Len(q) < MaxSubQ
    THEN Append(q, [ReceivedFrom |-> room.selfID, Data |-> data])
    ELSE q

\* case message := <-cr.Outbound: marshal and psTopic.Publish; ok is the
\* substrate's answer, which is an error on a closed topic
PubTake(s, ok) ==
    /\ pubPc[s] = "select"
    /\ cr[s].Outbound # <<>>
    /\ ok => ~cr[s].topicClosed
    /\ LET data == Marshal(Envelope(cr[s], Head(cr[s].Outbound))) IN
        /\ cr' = [cr EXCEPT ![s].Outbound = Tail(@)]
        /\ IF ok
           THEN /\ published' = [published EXCEPT ![s] = Append(@, data)]
                /\ subQ' = [subQ EXCEPT ![s] = LocalEcho(@, cr[s], data)]
                /\ UNCHANGED pubPc
           ELSE /\ pubPc' = [pubPc EXCEPT ![s] = "logPublish"]
                /\ UNCHANGED <<published, subQ>>
    /\ UNCHANGED <<auxVars, nCr, subPc, subMsg, psTopics, nNet, uiVars, enqueued, received,
                   delivered, shown, logged, exits>>

\* cr.Logs <- chatLog{"puberr", "failed to publish message"}
PubSendLog(s) ==
    /\ pubPc[s] = "logPublish"
    /\ CanSend(cr[s].Logs)
    /\ LET log == chatLog("puberr", "failed to publish message", <<>>) IN
        /\ cr' = [cr EXCEPT ![s].Logs = Append(@, log)]
        /\ logged' = [logged EXCEPT ![s] = Append(@, [by |-> "pub", log |-> log])]
    /\ pubPc' = [pubPc EXCEPT ![s] = "select"]
    /\ UNCHANGED <<auxVars, nCr, subPc, subMsg, psTopics, subQ, nNet, uiVars, enqueued,
                   published, received, delivered, shown, exits>>

publishLoop(s) ==
    PubDone(s) \/ (\E ok \in BOOLEAN : PubTake(s, ok)) \/ PubSendLog(s)

(* -------------------------------- Exit -------------------------------- *)
\* an Exit that also closes Inbound itself
\* Exit with psCancel() called first instead of deferred
ExitStatementContextFirst(room, k) ==
    IF k = 1 THEN [room EXCEPT !.ctxDone = TRUE]
    ELSE IF k = 2 THEN [room EXCEPT !.subCancelled = TRUE]
    ELSE [room EXCEPT !.topicClosed = TRUE]

ExitStatementClosingInbound(room, k) ==
    IF k = 1 THEN [room EXCEPT !.subCancelled = TRUE]
    ELSE IF k = 2 THEN [room EXCEPT !.topicClosed = TRUE]
    ELSE [room EXCEPT !.ctxDone = TRUE, !.inCloses = @ + 1]

\* the k-th statement of Exit on a session: psSub.Cancel(), psTopic.Close(),
\* and the deferred psCancel()
ExitStatement(room, k) ==
    IF k = 1 THEN [room EXCEPT !.subCancelled = TRUE]
    ELSE IF k = 2 THEN [room EXCEPT !.topicClosed = TRUE]
    ELSE [room EXCEPT !.ctxDone = TRUE]

\* the open topic handles after the k-th statement of Exit: closing a handle
\* that is closed already changes nothing
ExitTopics(room, k) ==
    IF k = 2 /\ ~room.topicClosed
    THEN psTopics \ {TopicName(room.RoomName)}
    ELSE psTopics

(* ------------------------------ substrate ----------------------------- *)
\* what another peer can send to a subscription of session s: a message of
\* its own, bytes that are no JSON, or a copy of a payload s published
NetPayloads(s) ==
    {[ReceivedFrom |-> OtherID,
      Data |-> Marshal([Message |-> Yo, SenderID |-> OtherID, SenderName |-> Bob])],
     [ReceivedFrom |-> OtherID, Data |-> Garbage]}
    \cup {[ReceivedFrom |-> OtherID, Data |-> published[s][i]] :
            i \in DOMAIN published[s]}

\* the substrate buffers a payload from another peer for the subscription
NetDeliver(s, payload) ==
    /\ nNet < MaxNet
    /\ ~exited
    /\ ~cr[s].subCancelled
    /\ Len(subQ[s]) < MaxSubQ
    /\ payload \in NetPayloads(s)
    /\ subQ' = [subQ EXCEPT ![s] = Append(@, payload)]
    /\ nNet' = nNet + 1
    /\ UNCHANGED <<auxVars, cr, nCr, subPc, subMsg, pubPc, psTopics, uiVars, histVars>>

(* ----------------------------- input field ---------------------------- *)
\* strings.HasPrefix(line, "/")
HasPrefixSlash(line) == Len(line) > 0 /\ line[1] = "/"

\* strings.Split(line, " "): cut at every space, the first two parts kept
SplitEverySpace(line) ==
    IF \E i \in 1..Len(line) : line[i] = " "
    THEN LET i == CHOOSE k \in 1..Len(line) :
                    line[k] = " " /\ \A j \in 1..(k - 1) : line[j] # " "
             rest == SubSeq(line, i + 1, Len(line))
             ends == {k \in 1..Len(rest) : rest[k] = " "} \cup {Len(rest) + 1}
             e == CHOOSE k \in ends : \A j \in ends : k <= j
         IN <<SubSeq(line, 1, i - 1), SubSeq(rest, 1, e - 1)>>
    ELSE <<line>>

\* strings.SplitN(line, " ", 2): cut at the first space, if there is one
SplitN2(line) ==
    IF \E i \in 1..Len(line) : line[i] = " "
    THEN LET i == CHOOSE k \in 1..Len(line) :
                    line[k] = " " /\ \A j \in 1..(k - 1) : line[j] # " "
         IN <<SubSeq(line, 1, i - 1), SubSeq(line, i + 1, Len(line))>>
    ELSE <<line>>

\* the UICommand the done-function of the input field builds from a line
ParseCommand(line) ==
    LET cmdParts == SplitN2(line) IN
    [CommandType |-> cmdParts[1],
     Argument |-> IF Len(cmdParts) > 1 THEN cmdParts[2] ELSE <<>>]

\* the lines the user commits
UserLines ==
    {Hi, CmdExit, CmdClear, CmdRoom, CmdRoom \o Space \o Hub,
     CmdRoom \o Space \o Lobby, CmdUser, CmdUser \o Space \o Bob, CmdNope}

\* SetDoneFunc callback on Enter: a command goes to cmdChan, anything else to
\* msgChan; the toolkit's loop blocks in the send while the channel is full
InputFieldDone(line, budget) ==
    /\ ~appStopped
    /\ nLines < budget
    /\ Len(line) > 0
    /\ nLines' = nLines + 1
    /\ typed' = Append(typed, line)
    /\ IF HasPrefixSlash(line)
       THEN /\ CanSend(CmdInputs)
            /\ CmdInputs' = Append(CmdInputs, ParseCommand(line))
            /\ UNCHANGED MsgInputs
       ELSE /\ CanSend(MsgInputs)
            /\ MsgInputs' = Append(MsgInputs, line)
            /\ UNCHANGED CmdInputs
    /\ UNCHANGED <<lateEvents, echoed, sessVars, nCr, psTopics, nNet, active, uiPc, uiLog, uiArg, uiNew,
                   uiMsg, exited, apiPc, apiSess, MessageBox, boxTitle, InputLabel, appStopped, zeroReads, histVars>>

\* the callback in the runs followed up to MaxLines committed lines
createInputField(line) == InputFieldDone(line, MaxLines)

(* ------------------------------- display ------------------------------ *)
\* displayMessage: the line the queued update appends to the message box
displayMessage(sender, message, color) ==
    [color |-> color, sender |-> sender, text |-> message]

\* displayLog: the line the queued update appends to the message box
displayLog(log) ==
    [color |-> "red", sender |-> <<log.Prefix>>, text |-> log.Msg]

\* fmt.Sprintf("ChatRoom-%s", roomName)
Title(roomName) == <<"ChatRoom-">> \o roomName

(* --------------------------- handleEvents ----------------------------- *)
\* the select takes a case other than psCtx.Done(): one more event taken
\* after the cancellation, when the context is cancelled already
Late ==
    IF cr[active].ctxDone
    THEN (IF lateEvents < MaxLate THEN lateEvents + 1 ELSE lateEvents)
    ELSE lateEvents

\* case msg := <-ui.MsgInputs
UIRecvMsg ==
    /\ uiPc = "select"
    /\ MsgInputs # <<>>
    /\ uiMsg' = Head(MsgInputs)
    /\ MsgInputs' = Tail(MsgInputs)
    /\ uiPc' = "forward"
    /\ lateEvents' = Late
    /\ UNCHANGED <<typed, echoed, sessVars, nCr, psTopics, nNet, active, uiLog, uiArg, uiNew, exited, apiPc, apiSess,
                   CmdInputs, MessageBox, boxTitle, InputLabel, appStopped,
                   nLines, zeroReads, histVars>>

\* ui.Outbound <- msg; ui.displayMessage(ui.UserName, msg, tcell.ColorGreen)
UIForward ==
    /\ uiPc = "forward"
    /\ CanSend(cr[active].Outbound)
    /\ cr' = [cr EXCEPT ![active].Outbound = Append(@, uiMsg)]
    /\ enqueued' = [enqueued EXCEPT ![active] = Append(@, uiMsg)]
    /\ echoed' = [echoed EXCEPT ![active] = Append(@, cr[active].UserName)]
    /\ MessageBox' = Append(MessageBox,
                            displayMessage(cr[active].UserName, uiMsg, "green"))
    /\ uiPc' = "select"
    /\ uiMsg' = <<>>
    /\ UNCHANGED <<lateEvents, typed, nCr, subPc, subMsg, pubPc, psTopics, subQ, nNet, active, uiLog,
                   uiArg, uiNew, exited, apiPc, apiSess, MsgInputs, CmdInputs, boxTitle,
                   InputLabel, appStopped, nLines, zeroReads, published,
                   received, delivered, shown, logged, exits>>

\* no log pending
NoLog == chatLog("", "", <<>>)

\* processCommand: the log a command ends in, when it ends in one
CommandLog(cmd) ==
    IF cmd.CommandType = CmdRoom
    THEN IF cmd.Argument = <<>>
         THEN chatLog("error", "missing room name", <<>>)
         ELSE chatLog("info", "switching to room '", cmd.Argument \o <<"'">>)
    ELSE IF cmd.CommandType = CmdUser
    THEN chatLog("error", "missing username", <<>>)
    ELSE chatLog("error", "unsupported command: ", cmd.CommandType)

\* processCommand: where handleEvents goes after taking the command
CommandPc(cmd) ==
    IF cmd.CommandType \in {CmdExit, CmdClear} THEN "select"
    ELSE IF cmd.CommandType = CmdRoom
    THEN IF cmd.Argument = <<>> THEN "sendLog" ELSE "swInfo"
    ELSE IF cmd.CommandType = CmdUser
    THEN IF cmd.Argument = <<>> THEN "sendLog" ELSE "select"
    ELSE "sendLog"

\* case cmd := <-ui.CmdInputs: ui.processCommand(cmd), up to its first send.
\* "/exit" is ui.Close(): psCancel() and App.Stop()
UIRecvCmd ==
    /\ uiPc = "select"
    /\ CmdInputs # <<>>
    /\ LET cmd == Head(CmdInputs)
           rename == cmd.CommandType = CmdUser /\ cmd.Argument # <<>>
       IN
        /\ CmdInputs' = Tail(CmdInputs)
        /\ lateEvents' = Late
        /\ uiPc' = CommandPc(cmd)
        /\ uiLog' = IF CommandPc(cmd) = "select" THEN NoLog ELSE CommandLog(cmd)
        /\ uiArg' = IF CommandPc(cmd) = "swInfo" THEN cmd.Argument ELSE <<>>
        /\ cr' = IF cmd.CommandType = CmdExit
                 THEN [cr EXCEPT ![active].ctxDone = TRUE]
                 ELSE IF rename
                 THEN [cr EXCEPT ![active].UserName = cmd.Argument]
                 ELSE cr
        /\ appStopped' = (appStopped \/ cmd.CommandType = CmdExit)
        /\ MessageBox' = IF cmd.CommandType = CmdClear THEN <<>> ELSE MessageBox
        /\ InputLabel' = IF rename THEN cmd.Argument \o <<" > ">> ELSE InputLabel
    /\ UNCHANGED <<typed, echoed, nCr, subPc, subMsg, pubPc, psTopics, subQ, nNet, active, uiNew,
                   uiMsg, exited, apiPc, apiSess, MsgInputs, boxTitle, nLines, zeroReads,
                   histVars>>

\* ui.Logs <- chatLog{...}: the sends of processCommand and switchRoom
UISendLog ==
    /\ uiPc \in {"sendLog", "swInfo", "swErr"}
    /\ CanSend(cr[active].Logs)
    /\ cr' = [cr EXCEPT ![active].Logs = Append(@, uiLog)]
    /\ logged' = [logged EXCEPT ![active] = Append(@, [by |-> "ui", log |-> uiLog])]
    /\ uiPc' = IF uiPc = "swInfo" THEN "swJoin" ELSE "select"
    /\ uiLog' = NoLog
    /\ uiArg' = IF uiPc = "swInfo" THEN uiArg ELSE <<>>
    /\ UNCHANGED <<auxVars, nCr, subPc, subMsg, pubPc, psTopics, subQ, nNet, active, uiNew,
                   uiMsg, exited, apiPc, apiSess, MsgInputs, CmdInputs, MessageBox,
                   boxTitle, InputLabel, appStopped, nLines, zeroReads,
                   enqueued, published, received, delivered, shown, exits>>

\* a switch that installs the new session without Exit on the old one
UISwitchJoinNoExit(outcome) ==
    /\ uiPc = "swJoin"
    /\ JoinChatRoom(cr[active].UserName, uiArg, outcome)
    /\ IF outcome = "ok"
       THEN /\ uiNew' = nCr + 1
            /\ uiPc' = "install"
            /\ UNCHANGED uiLog
       ELSE /\ uiLog' = chatLog("error", "could not switch rooms: ", <<outcome>>)
            /\ uiPc' = "swErr"
            /\ UNCHANGED uiNew
    /\ uiArg' = <<>>
    /\ UNCHANGED <<auxVars, subMsg, subQ, nNet, active, uiMsg, exited, apiPc, apiSess,
                   MsgInputs, CmdInputs, MessageBox, boxTitle, InputLabel,
                   appStopped, nLines, zeroReads, histVars>>

\* switchRoom: newChatRoom, err := JoinChatRoom(ui.Host, ui.UserName, roomName)
UISwitchJoin(outcome) ==
    /\ uiPc = "swJoin"
    /\ JoinChatRoom(cr[active].UserName, uiArg, outcome)
    /\ IF outcome = "ok"
       THEN /\ uiNew' = nCr + 1
            /\ uiPc' = "exit1"
            /\ UNCHANGED uiLog
       ELSE /\ uiLog' = chatLog("error", "could not switch rooms: ", <<outcome>>)
            /\ uiPc' = "swErr"
            /\ UNCHANGED uiNew
    /\ uiArg' = <<>>
    /\ UNCHANGED <<auxVars, subMsg, subQ, nNet, active, uiMsg, exited, apiPc, apiSess, MsgInputs,
                   CmdInputs, MessageBox, boxTitle, InputLabel, appStopped,
                   nLines, zeroReads, histVars>>

\* switchRoom: ui.ChatRoom.Exit(), one statement at a time
UISwitchExit(k) ==
    /\ uiPc = <<"exit1", "exit2", "exit3">>[k]
    /\ cr' = [cr EXCEPT ![active] = ExitStatement(@, k)]
    /\ psTopics' = ExitTopics(cr[active], k)
    /\ exits' = [exits EXCEPT ![active] = Append(@, k)]
    /\ uiPc' = <<"exit2", "exit3", "install">>[k]
    /\ UNCHANGED <<auxVars, nCr, subPc, subMsg, pubPc, subQ, nNet, active, uiLog, uiArg, uiNew,
                   uiMsg, exited, apiPc, apiSess, MsgInputs, CmdInputs, MessageBox, boxTitle,
                   InputLabel, appStopped, nLines, zeroReads, enqueued,
                   published, received, delivered, shown, logged>>

\* switchRoom: ui.ChatRoom = newChatRoom; sleep; clear the box, set its title
UISwitchInstall ==
    /\ uiPc = "install"
    /\ active' = uiNew
    /\ MessageBox' = <<>>
    /\ boxTitle' = Title(cr[uiNew].RoomName)
    /\ uiPc' = "select"
    /\ UNCHANGED <<auxVars, sessVars, nCr, psTopics, nNet, uiLog, uiArg, uiNew, uiMsg, exited, apiPc, apiSess,
                   MsgInputs, CmdInputs, InputLabel, appStopped, nLines,
                   zeroReads, histVars>>

\* case msg := <-ui.Inbound, a buffered message
UIInbound ==
    /\ uiPc = "select"
    /\ cr[active].Inbound # <<>>
    /\ LET msg == Head(cr[active].Inbound) IN
        /\ cr' = [cr EXCEPT ![active].Inbound = Tail(@)]
        /\ MessageBox' = Append(MessageBox,
                                displayMessage(msg.SenderName, msg.Message, "blue"))
        /\ shown' = [shown EXCEPT ![active] = Append(@, msg)]
        /\ lateEvents' = Late
    /\ UNCHANGED <<typed, echoed, nCr, subPc, subMsg, pubPc, psTopics, subQ, nNet, active, uiPc,
                   uiLog, uiArg, uiNew, uiMsg, exited, apiPc, apiSess, MsgInputs, CmdInputs, boxTitle,
                   InputLabel, appStopped, nLines, zeroReads, enqueued,
                   published, received, delivered, logged, exits>>

\* case msg := <-ui.Inbound on a closed and drained channel: the zero value
UIInboundClosed ==
    /\ uiPc = "select"
    /\ cr[active].Inbound = <<>>
    /\ cr[active].inCloses > 0
    /\ zeroReads < MaxZeroReads
    /\ zeroReads' = zeroReads + 1
    /\ lateEvents' = Late
    /\ MessageBox' = Append(MessageBox,
                            displayMessage(ZeroMsg.SenderName, ZeroMsg.Message, "blue"))
    /\ shown' = [shown EXCEPT ![active] = Append(@, ZeroMsg)]
    /\ UNCHANGED <<typed, echoed, sessVars, nCr, psTopics, nNet, active, uiPc, uiLog, uiArg, uiNew,
                   uiMsg, exited, apiPc, apiSess, MsgInputs, CmdInputs, boxTitle, InputLabel, appStopped, nLines, enqueued, published, received, delivered,
                   logged, exits>>

\* case log := <-ui.Logs: ui.displayLog(log)
UILog ==
    /\ uiPc = "select"
    /\ cr[active].Logs # <<>>
    /\ cr' = [cr EXCEPT ![active].Logs = Tail(@)]
    /\ MessageBox' = Append(MessageBox, displayLog(Head(cr[active].Logs)))
    /\ lateEvents' = Late
    /\ UNCHANGED <<typed, echoed, nCr, subPc, subMsg, pubPc, psTopics, subQ, nNet, active, uiPc,
                   uiLog, uiArg, uiNew, uiMsg, exited, apiPc, apiSess, MsgInputs, CmdInputs, boxTitle,
                   InputLabel, appStopped, nLines, zeroReads, histVars>>

\* case <-ticker.C: ui.updatePeerBox() redraws the peer box, which is no part of
\* the state here: the step only counts as an event taken
UITick ==
    /\ uiPc = "select"
    /\ lateEvents' = Late
    /\ UNCHANGED <<sessVars, nCr, psTopics, nNet, uiVars, histVars, typed, echoed>>

\* case <-ui.psCtx.Done(): return
UIDone ==
    /\ uiPc = "select"
    /\ cr[active].ctxDone
    /\ uiPc' = "done"
    /\ UNCHANGED <<auxVars, sessVars, nCr, psTopics, nNet, active, uiLog, uiArg, uiNew, uiMsg,
                   exited, apiPc, apiSess, MsgInputs, CmdInputs, MessageBox, boxTitle, InputLabel,
                   appStopped, nLines, zeroReads, histVars>>

handleEvents ==
    \/ UIRecvMsg \/ UIForward \/ UIRecvCmd \/ UISendLog
    \/ (\E outcome \in {"ok", "joinErr", "subErr"} : UISwitchJoin(outcome))
    \/ (\E k \in 1..3 : UISwitchExit(k))
    \/ UISwitchInstall \/ UIInbound \/ UIInboundClosed \/ UILog \/ UITick \/ UIDone

(* -------------------------------- main -------------------------------- *)
\* ui.Run() returns once App.Stop() was called, and main returns with it: the
\* process ends and takes every goroutine with it
MainReturn ==
    /\ appStopped
    /\ ~exited
    /\ exited' = TRUE
    /\ uiPc' = "gone"
    /\ subPc' = [s \in Sessions |-> IF s \in Live THEN "gone" ELSE subPc[s]]
    /\ pubPc' = [s \in Sessions |-> IF s \in Live THEN "gone" ELSE pubPc[s]]
    /\ UNCHANGED <<auxVars, cr, nCr, subMsg, psTopics, subQ, nNet, active, uiLog, uiArg, uiNew,
                   uiMsg, apiPc, apiSess, MsgInputs, CmdInputs, MessageBox, boxTitle,
                   InputLabel, appStopped, nLines, zeroReads, histVars>>

\* main: the flags' defaults, JoinChatRoom succeeded, NewUI, handleEvents started
Init ==
    /\ cr = [s \in Sessions |-> IF s = 1 THEN NewChatRoom(User, Lobby) ELSE NoRoom]
    /\ nCr = 1
    /\ subPc = [s \in Sessions |-> IF s = 1 THEN "top" ELSE "none"]
    /\ pubPc = [s \in Sessions |-> IF s = 1 THEN "select" ELSE "none"]
    /\ subMsg = [s \in Sessions |-> ZeroMsg]
    /\ psTopics = {TopicName(Lobby)}
    /\ subQ = [s \in Sessions |-> <<>>]
    /\ nNet = 0
    /\ active = 1
    /\ uiPc = "select"
    /\ uiLog = NoLog
    /\ uiArg = <<>>
    /\ uiNew = 1
    /\ uiMsg = <<>>
    /\ exited = FALSE
    /\ apiPc = "off"
    /\ apiSess = 1
    /\ MsgInputs = <<>>
    /\ CmdInputs = <<>>
    /\ MessageBox = <<>>
    /\ boxTitle = Title(Lobby)
    /\ InputLabel = User \o <<" > ">>
    /\ appStopped = FALSE
    /\ nLines = 0
    /\ zeroReads = 0
    /\ enqueued = [s \in Sessions |-> <<>>]
    /\ published = [s \in Sessions |-> <<>>]
    /\ received = [s \in Sessions |-> <<>>]
    /\ delivered = [s \in Sessions |-> <<>>]
    /\ shown = [s \in Sessions |-> <<>>]
    /\ logged = [s \in Sessions |-> <<>>]
    /\ exits = [s \in Sessions |-> <<>>]
    /\ typed = <<>>
    /\ echoed = [s \in Sessions |-> <<>>]
    /\ lateEvents = 0

Next ==
    \/ \E s \in Live : SubTop(s)
    \/ \E s \in Live : SubNextMsg(s)
    \/ \E s \in Live : SubNextErr(s)
    \/ \E s \in Live : SubSendLog(s)
    \/ \E s \in Live : SubDeliver(s)
    \/ \E s \in Live : PubDone(s)
    \/ \E s \in Live : \E ok \in BOOLEAN : PubTake(s, ok)
    \/ \E s \in Live : PubSendLog(s)
    \/ \E s \in Live : \E payload \in NetPayloads(s) : NetDeliver(s, payload)
    \/ \E line \in UserLines : createInputField(line)
    \/ UIRecvMsg \/ UIForward \/ UIRecvCmd \/ UISendLog
    \/ \E outcome \in {"ok", "joinErr", "subErr"} : UISwitchJoin(outcome)
    \/ \E k \in 1..3 : UISwitchExit(k)
    \/ UISwitchInstall \/ UIInbound \/ UIInboundClosed \/ UILog \/ UITick \/ UIDone
    \/ MainReturn

Spec == Init /\ [][Next]_vars

(* --------------------------- the input path -------------------------- *)
\* the input field, the multiplexer and the publish loops under more input
\* lines, in the runs where no peer sends anything and the receive loops stay
\* in their first read
Lobby2 == Lobby \o <<"2">>

\* input.GetText() can be any text: lines with several spaces, a space first
\* or last, a slash that is not the first character
InputLines ==
    UserLines \cup
    {Hi \o Space \o Yo, Space \o CmdRoom, Hi \o CmdRoom,
     CmdRoom \o Space, CmdRoom \o Space \o Lobby2,
     CmdRoom \o Space \o Space \o Hub, CmdRoom \o Space \o Hub \o Space \o Yo,
     CmdUser \o Space, CmdUser \o Space \o Bob \o Space \o Yo}

InputNext ==
    \/ \E s \in Live : PubDone(s)
    \/ \E s \in Live : \E ok \in BOOLEAN : PubTake(s, ok)
    \/ \E s \in Live : PubSendLog(s)
    \/ \E line \in InputLines : createInputField(line)
    \/ UIRecvMsg \/ UIForward \/ UIRecvCmd \/ UISendLog
    \/ \E outcome \in {"ok", "joinErr", "subErr"} : UISwitchJoin(outcome)
    \/ \E k \in 1..3 : UISwitchExit(k)
    \/ UISwitchInstall \/ UILog \/ UIDone
    \/ MainReturn

InputSpec == Init /\ [][InputNext]_vars

(* --------------------------- the rename path -------------------------- *)
\* the input path again, followed one line further over fewer lines: renames
\* before and after a chat message, a switch after a rename
RenameLines ==
    {Hi, CmdUser \o Space \o Bob, CmdUser \o Space \o Yo,
     CmdRoom \o Space \o Hub, CmdExit}

RenameNext ==
    \/ \E s \in Live : PubDone(s)
    \/ \E s \in Live : \E ok \in BOOLEAN : PubTake(s, ok)
    \/ \E s \in Live : PubSendLog(s)
    \/ \E line \in RenameLines : InputFieldDone(line, MaxRenameLines)
    \/ UIRecvMsg \/ UIForward \/ UIRecvCmd \/ UISendLog
    \/ \E outcome \in {"ok", "joinErr", "subErr"} : UISwitchJoin(outcome)
    \/ \E k \in 1..3 : UISwitchExit(k)
    \/ UISwitchInstall \/ UILog \/ UIDone
    \/ MainReturn

RenameSpec == Init /\ [][RenameNext]_vars

(* ------------------- the package under a direct caller ---------------- *)
\* JoinChatRoom, Exit and the channels are exported: a caller other than the
\* UI (a test, another front end) joins rooms, exits sessions, sends on
\* Outbound and may or may not read Inbound and Logs

\* Exit calls the caller has started on session s
ExitCalls(s) == Len(SelectSeq(exits[s], LAMBDA k : k = 1))

\* Exit calls that have returned on session s
ExitReturns(s) == Len(SelectSeq(exits[s], LAMBDA k : k = 3))

\* chatRoom, err := JoinChatRoom(p2pHost, "user", roomName); this caller holds
\* one session: it goes on joining only as long as no join has succeeded
ApiJoin(roomName, outcome) ==
    /\ apiPc = "idle"
    /\ outcome = "ok" => nCr = 0
    /\ JoinChatRoom(User, roomName, outcome)
    /\ UNCHANGED <<auxVars, subMsg, subQ, nNet, uiVars, histVars>>

\* chatRoom.Exit() is called
ApiExitCall(s) ==
    /\ apiPc = "idle"
    /\ ExitCalls(s) < MaxExitCalls
    /\ apiPc' = "exit1"
    /\ apiSess' = s
    /\ UNCHANGED <<auxVars, sessVars, nCr, psTopics, nNet, active, uiPc, uiLog, uiArg, uiNew,
                   uiMsg, exited, MsgInputs, CmdInputs, MessageBox, boxTitle,
                   InputLabel, appStopped, nLines, zeroReads, histVars>>

\* chatRoom.Exit(), one statement at a time
ApiExit(k) ==
    /\ apiPc = <<"exit1", "exit2", "exit3">>[k]
    /\ cr' = [cr EXCEPT ![apiSess] = ExitStatement(@, k)]
    /\ psTopics' = ExitTopics(cr[apiSess], k)
    /\ exits' = [exits EXCEPT ![apiSess] = Append(@, k)]
    /\ apiPc' = <<"exit2", "exit3", "idle">>[k]
    /\ UNCHANGED <<auxVars, nCr, subPc, subMsg, pubPc, subQ, nNet, active, uiPc, uiLog, uiArg,
                   uiNew, uiMsg, exited, apiSess, MsgInputs, CmdInputs, MessageBox,
                   boxTitle, InputLabel, appStopped, nLines, zeroReads, enqueued,
                   published, received, delivered, shown, logged>>

\* chatRoom.Outbound <- text
ApiSend(s, text) ==
    /\ apiPc = "idle"
    /\ nLines < MaxSends
    /\ CanSend(cr[s].Outbound)
    /\ cr' = [cr EXCEPT ![s].Outbound = Append(@, text)]
    /\ enqueued' = [enqueued EXCEPT ![s] = Append(@, text)]
    /\ echoed' = [echoed EXCEPT ![s] = Append(@, cr[s].UserName)]
    /\ nLines' = nLines + 1
    /\ UNCHANGED <<lateEvents, typed, nCr, subPc, subMsg, pubPc, psTopics, subQ, nNet, active, uiPc,
                   uiLog, uiArg, uiNew, uiMsg, exited, apiPc, apiSess, MsgInputs,
                   CmdInputs, MessageBox, boxTitle, InputLabel, appStopped, zeroReads,
                   published, received, delivered, shown, logged, exits>>

\* <-chatRoom.Inbound, a buffered message
ApiRecvInbound(s) ==
    /\ apiPc = "idle"
    /\ cr[s].Inbound # <<>>
    /\ cr' = [cr EXCEPT ![s].Inbound = Tail(@)]
    /\ shown' = [shown EXCEPT ![s] = Append(@, Head(cr[s].Inbound))]
    /\ UNCHANGED <<auxVars, nCr, subPc, subMsg, pubPc, psTopics, subQ, nNet, uiVars, enqueued,
                   published, received, delivered, logged, exits>>

\* <-chatRoom.Logs
ApiRecvLog(s) ==
    /\ apiPc = "idle"
    /\ cr[s].Logs # <<>>
    /\ cr' = [cr EXCEPT ![s].Logs = Tail(@)]
    /\ UNCHANGED <<auxVars, nCr, subPc, subMsg, pubPc, psTopics, subQ, nNet, uiVars, histVars>>

\* the substrate tears the subscription down by itself: psSub.Next will
\* return an error once the buffer is drained
SubscriptionTornDown(s) ==
    /\ ~cr[s].subCancelled
    /\ cr' = [cr EXCEPT ![s].subCancelled = TRUE]
    /\ UNCHANGED <<auxVars, nCr, subPc, subMsg, pubPc, psTopics, subQ, nNet, uiVars, histVars>>

\* no session yet, no UI
ApiInit ==
    /\ cr = [s \in Sessions |-> NoRoom]
    /\ nCr = 0
    /\ subPc = [s \in Sessions |-> "none"]
    /\ pubPc = [s \in Sessions |-> "none"]
    /\ subMsg = [s \in Sessions |-> ZeroMsg]
    /\ psTopics = {}
    /\ subQ = [s \in Sessions |-> <<>>]
    /\ nNet = 0
    /\ active = 1
    /\ uiPc = "off"
    /\ uiLog = NoLog
    /\ uiArg = <<>>
    /\ uiNew = 1
    /\ uiMsg = <<>>
    /\ exited = FALSE
    /\ apiPc = "idle"
    /\ apiSess = 1
    /\ MsgInputs = <<>>
    /\ CmdInputs = <<>>
    /\ MessageBox = <<>>
    /\ boxTitle = <<>>
    /\ InputLabel = <<>>
    /\ appStopped = FALSE
    /\ nLines = 0
    /\ zeroReads = 0
    /\ enqueued = [s \in Sessions |-> <<>>]
    /\ published = [s \in Sessions |-> <<>>]
    /\ received = [s \in Sessions |-> <<>>]
    /\ delivered = [s \in Sessions |-> <<>>]
    /\ shown = [s \in Sessions |-> <<>>]
    /\ logged = [s \in Sessions |-> <<>>]
    /\ exits = [s \in Sessions |-> <<>>]
    /\ typed = <<>>
    /\ echoed = [s \in Sessions |-> <<>>]
    /\ lateEvents = 0

ApiNext ==
    \/ \E s \in Live : SubTop(s)
    \/ \E s \in Live : SubNextMsg(s)
    \/ \E s \in Live : SubNextErr(s)
    \/ \E s \in Live : SubSendLog(s)
    \/ \E s \in Live : SubDeliver(s)
    \/ \E s \in Live : PubDone(s)
    \/ \E s \in Live : \E ok \in BOOLEAN : PubTake(s, ok)
    \/ \E s \in Live : PubSendLog(s)
    \/ \E s \in Live : \E payload \in NetPayloads(s) : NetDeliver(s, payload)
    \/ \E s \in Live : SubscriptionTornDown(s)
    \/ \E roomName \in {Lobby, Hub} : \E outcome \in {"ok", "joinErr", "subErr"} :
         ApiJoin(roomName, outcome)
    \/ \E s \in Live : ApiExitCall(s)
    \/ \E k \in 1..3 : ApiExit(k)
    \/ \E s \in Live : ApiSend(s, Hi)
    \/ \E s \in Live : ApiRecvInbound(s)
    \/ \E s \in Live : ApiRecvLog(s)

ApiSpec == ApiInit /\ [][ApiNext]_vars

\* the loops run when they can, and an Exit that was called runs to its end
ApiFairness ==
    /\ \A s \in Sessions : WF_vars(subscribeLoop(s)) /\ WF_vars(publishLoop(s))
    /\ WF_vars(\E k \in 1..3 : ApiExit(k))

FairApiSpec == ApiSpec /\ ApiFairness

\* the Go scheduler runs every goroutine that can take a step, and a select
\* takes a case that stays ready; the user and the other peers owe nothing
Fairness ==
    /\ \A s \in Sessions : WF_vars(subscribeLoop(s)) /\ WF_vars(publishLoop(s))
    /\ WF_vars(handleEvents)
    /\ WF_vars(MainReturn)

FairSpec == Spec /\ Fairness

(* =============================== claims ============================== *)

\* both loops of session s have returned (or the process is gone)
LoopsTerminated(s) == subPc[s] \in {"done", "gone"} /\ pubPc[s] \in {"done", "gone"}

\* nothing was sent on Outbound of s and no payload has reached s
Quiet(s) == enqueued[s] = <<>> /\ received[s] = <<>> /\ subQ[s] = <<>>

\* the "could not switch rooms" logs switchRoom has emitted so far
SwitchErrors(s) ==
    Len(SelectSeq(logged[s], LAMBDA e : e.by = "ui" /\ e.log.Prefix = "error"
                                        /\ e.log.Msg[1] = "could not switch rooms: "))

\* handleEvents is inside a dispatch, at one of its channel sends
InDispatch == uiPc \in {"forward", "sendLog", "swInfo", "swErr"}

\* C1: switch atomicity on failure: when join(newRoom) fails inside a room
\* switch, the switch returns with the active session the one it was, with no
\* Exit called on it, and with exactly one more error log emitted.
C1_SwitchAtomicOnFailure ==
    \A s \in Sessions : \A n \in 0..MaxLines :
        (uiPc = "swErr" /\ active = s /\ SwitchErrors(s) = n)
            ~> (/\ uiPc = "select" /\ active = s
                /\ exits[s] = <<>> /\ SwitchErrors(s) = n + 1)

\* C2: the multiplexer never blocks forever inside a dispatch: every send it
\* performs while handling an event (a user message on Outbound, a command's
\* log on Logs) eventually completes and the loop is back at its select.
C2_DispatchCompletes == InDispatch ~> (uiPc = "select")

\* C3: once a session's lifecycle context is cancelled, both its loops
\* eventually terminate and its Inbound is eventually closed, also when nothing
\* reads its channels any more (the end of the process counts as termination).
C3_CancelTerminatesLoops ==
    \A s \in Sessions :
        cr[s].ctxDone ~> (LoopsTerminated(s) /\ (cr[s].inCloses > 0 \/ exited))

\* C4: a successful join followed by exit, with no outbound message enqueued
\* and no payload received, does not leak: after Exit has returned, the publish
\* loop and the receive loop both terminate, whether or not anything reads the
\* channels (a run in which a message is sent or received later is outside the
\* claim).
C4_JoinExitNoLeak ==
    \A s \in Sessions : ExitReturns(s) > 0 ~> (LoopsTerminated(s) \/ ~Quiet(s))

C4_Witness ==
    \E s \in Live : /\ ExitReturns(s) > 0 /\ Quiet(s) /\ LoopsTerminated(s)
                    /\ cr[s].Logs # <<>> /\ cr[s].inCloses = 1

\* what became of the texts taken from Outbound of s so far: published, or
\* reported by a publish-error log
PublishOutcomes(s) ==
    Len(published[s]) + Len(SelectSeq(logged[s], LAMBDA e : e.by = "pub"))

\* the payloads the receive loop of s read that came from another peer
Foreign(s) == SelectSeq(received[s], LAMBDA p : p.ReceivedFrom # cr[s].selfID)

\* those of them that do not decode, and those that do
Malformed(s) == SelectSeq(Foreign(s), LAMBDA p : Unmarshal(p.Data).err)
Valid(s) == SelectSeq(Foreign(s), LAMBDA p : ~Unmarshal(p.Data).err)

\* the messages the valid payloads decode to, in the order they were read
Decoded(s) == [i \in DOMAIN Valid(s) |-> Unmarshal(Valid(s)[i].Data).msg]

\* the session is being or has been torn down
TornDown(s) == cr[s].ctxDone \/ cr[s].subCancelled \/ cr[s].topicClosed \/ exited

\* C5: liveness within one session that is not torn down, the loops and the
\* multiplexer scheduled fairly: each of the n texts forwarded to Outbound is
\* eventually published or reported by a publish-error log, and each of the n
\* valid payloads read from another peer is eventually displayed.
C5_PublishDeliverLiveness ==
    \A s \in Sessions : \A n \in 1..MaxLines :
        /\ (Len(enqueued[s]) >= n) ~> (PublishOutcomes(s) >= n \/ TornDown(s))
        /\ (Len(Valid(s)) >= n) ~> (Len(shown[s]) >= n \/ TornDown(s))

\* a is an order-preserving subsequence of b
RECURSIVE IsSubSeq(_, _)
IsSubSeq(a, b) ==
    IF a = <<>> THEN TRUE
    ELSE IF b = <<>> THEN FALSE
    ELSE IF Head(a) = Head(b) THEN IsSubSeq(Tail(a), Tail(b))
    ELSE IsSubSeq(a, Tail(b))

\* the texts of the payloads s published, in order
PublishedTexts(s) == [i \in DOMAIN published[s] |-> Member(published[s][i], "message")]

\* the messages every payload s read decodes to, in order
ReceivedMsgs(s) ==
    LET ok == SelectSeq(received[s], LAMBDA p : ~Unmarshal(p.Data).err)
    IN [i \in DOMAIN ok |-> Unmarshal(ok[i].Data).msg]

\* C6: ordering within a session: the texts published are an order-preserving
\* subsequence of the texts enqueued on Outbound, and the remote messages
\* displayed are an order-preserving subsequence of the payloads received.
C6_Ordering ==
    \A s \in Sessions :
        /\ IsSubSeq(PublishedTexts(s), enqueued[s])
        /\ IsSubSeq(shown[s], ReceivedMsgs(s))

\* C7: self-echo suppression: no message whose envelope sender identity is the
\* session's own peer identity is ever put on the session's Inbound, by
\* whatever path the payload came back.
C7_SelfEchoSuppressed ==
    \A s \in Sessions : \A i \in DOMAIN delivered[s] :
        delivered[s][i].SenderID # cr[s].selfID

\* the "failed to unmarshal JSON" logs the receive loop of s has emitted
UnmarshalLogs(s) ==
    SelectSeq(logged[s], LAMBDA e : e.by = "sub"
                                    /\ e.log.Msg = <<"failed to unmarshal JSON">>)

C9_InboundClosedOnce ==
    \A s \in Sessions :
        /\ cr[s].inCloses <= 1
        /\ cr[s].inCloses = 1 =>
              /\ subPc[s] \in {"done", "gone"}
              /\ cr[s].closeCause \in {"cancel", "suberr"}
              /\ cr[s].closeCause = "cancel" => cr[s].ctxDone
              /\ cr[s].closeCause = "suberr" => cr[s].ctxDone \/ cr[s].subCancelled
        /\ cr[s].inCloses = 0 => cr[s].closeCause = "none"
        /\ subPc[s] = "deliver" => cr[s].inCloses = 0

C9_Witness ==
    \E s \in Live : /\ cr[s].inCloses = 1 /\ subPc[s] = "done"
                    /\ delivered[s] # <<>> /\ ExitReturns(s) = 1

\* C10: Exit is idempotent: after one or more Exit calls on a session, also
\* when the receive loop had already returned on a subscription error, no
\* channel was closed twice (the one panic a session can raise) and the
\* session is torn down as after a single Exit: subscription cancelled, topic
\* closed, lifecycle context cancelled.
C10_IdempotentExit ==
    \A s \in Sessions :
        /\ cr[s].inCloses <= 1
        /\ ExitReturns(s) >= 1 =>
              cr[s].subCancelled /\ cr[s].topicClosed /\ cr[s].ctxDone

C10_Witness ==
    \E s \in Live : /\ ExitReturns(s) = 2 /\ subPc[s] = "done" /\ apiPc = "idle"
                    /\ cr[s].closeCause = "suberr" /\ cr[s].inCloses = 1
                    /\ exits[s][4] = 1

\* C11: termination priority: once the active session's context is cancelled
\* the multiplexer takes at most one further event from another source before
\* it leaves its loop.
C11_TerminationPriority == lateEvents <= 1

\* C12: the exit command triggers full shutdown: once the multiplexer has
\* processed it (the UI is stopped), the active session has been exited: its
\* subscription is cancelled, its topic closed, its context cancelled.
C12_ExitCommandShutdown ==
    appStopped =>
        /\ cr[active].ctxDone
        /\ cr[active].subCancelled
        /\ cr[active].topicClosed

\* the publish loop of s has returned with a forwarded text neither published
\* nor reported by a log: nothing will publish or report that text any more
Dropped(s) == pubPc[s] = "done" /\ Len(enqueued[s]) > PublishOutcomes(s)

\* C13: no in-flight message is lost by a room switch: a text the multiplexer
\* forwarded to a session's Outbound is published or reported by a log even
\* when a successful switch exits that session next, so the publish loop of a
\* session exited by a switch never returns with a forwarded text left over.
C13_NoInFlightLoss ==
    \A s \in Sessions : ExitReturns(s) > 0 => ~Dropped(s)

\* C14: single active session: every step in which a remote message is
\* displayed, a user message forwarded or a log taken concerns the one active
\* session, which was never exited; and the active session changes only after
\* Exit has returned on the old one, so nothing of the old room is displayed
\* and nothing is forwarded to it after the switch.
C14_SingleActiveSession ==
    [][/\ \A s \in Sessions :
            (\/ shown'[s] # shown[s]
             \/ enqueued'[s] # enqueued[s]
             \/ Len(cr'[s].Logs) < Len(cr[s].Logs))
                => (s = active /\ active' = active /\ exits[s] = <<>>)
       /\ active' # active =>
            /\ exits[active] = <<1, 2, 3>>
            /\ exits[active'] = <<>>
            /\ uiPc' = "select"]_vars

C14_Witness ==
    /\ active = 2 /\ exits[1] = <<1, 2, 3>>
    /\ Len(shown[1]) < Len(delivered[1])
    /\ enqueued[2] # <<>>

\* C15: no partial session: a join whose topic join or subscribe step fails
\* hands its caller the error and nothing else: no session object, neither
\* loop started, nothing logged by the join itself; a join that succeeds hands
\* over a complete session with both loops started.
C15_NoPartialSession ==
    [][uiPc = "swJoin" =>
         /\ uiPc' = "swErr" =>
              /\ nCr' = nCr /\ cr' = cr
              /\ subPc' = subPc /\ pubPc' = pubPc
              /\ logged' = logged
              /\ uiLog'.Msg[2] \in {"joinErr", "subErr"}
         /\ uiPc' = "exit1" =>
              /\ nCr' = nCr + 1 /\ uiNew' = nCr'
              /\ cr'[nCr'] = NewChatRoom(cr[active].UserName, uiArg)
              /\ subPc'[nCr'] = "top" /\ pubPc'[nCr'] = "select"
         /\ \A s \in Sessions : s > nCr' =>
              cr'[s] = NoRoom /\ subPc'[s] = "none" /\ pubPc'[s] = "none"]_vars

C15_Witness ==
    /\ uiPc = "swErr" /\ uiLog.Msg[2] = "subErr"
    /\ nCr = 1 /\ subPc[2] = "none" /\ pubPc[2] = "none"

NotCommand(line) == line[1] # "/"

HasSpace(s) == \E i \in 1..Len(s) : s[i] = " "

\* the type of c is the text of the line before its first space, the argument
\* of c the text after it
IsCommandOf(c, line) ==
    /\ ~HasSpace(c.CommandType)
    /\ \/ line = c.CommandType /\ c.Argument = <<>>
       \/ line = c.CommandType \o Space \o c.Argument

RECURSIVE Flat(_, _)
Flat(q, n) == IF n = 0 THEN <<>> ELSE Flat(q, n - 1) \o q[n]

\* the texts on their way from the input field to the network, oldest first
Forwards(q, msg, inputs) ==
    Flat(q, MaxSessions) \o (IF msg = <<>> THEN <<>> ELSE <<msg>>) \o inputs

\* C16: command parsing: a committed line that does not start with "/" goes
\* to the message channel and from there to Outbound verbatim, once, in order,
\* and never to the command channel; a line that starts with "/" becomes one
\* command whose type is the text before the first space and whose argument is
\* the text after it; a room command without argument ends in an error log
\* and no join, a room command with an argument in a join of exactly that
\* room, and nothing else starts a join.
C16_CommandParsing ==
    [][/\ typed' # typed =>
            LET line == typed'[Len(typed')] IN
            IF NotCommand(line)
            THEN MsgInputs' = Append(MsgInputs, line) /\ CmdInputs' = CmdInputs
            ELSE /\ MsgInputs' = MsgInputs
                 /\ Len(CmdInputs') = Len(CmdInputs) + 1
                 /\ SubSeq(CmdInputs', 1, Len(CmdInputs)) = CmdInputs
                 /\ IsCommandOf(CmdInputs'[Len(CmdInputs')], line)
       /\ Forwards(enqueued', uiMsg', MsgInputs') = SelectSeq(typed', NotCommand)
       /\ (uiPc = "select" /\ Len(CmdInputs') < Len(CmdInputs)
              /\ Head(CmdInputs).CommandType = CmdRoom) =>
            IF Head(CmdInputs).Argument = <<>>
            THEN /\ uiPc' = "sendLog" /\ uiLog'.Prefix = "error"
                 /\ uiArg' = <<>>
                 /\ \E i \in 1..Len(typed) : typed[i] \in {CmdRoom, CmdRoom \o Space}
            ELSE /\ uiPc' = "swInfo"
                 /\ uiArg' = Head(CmdInputs).Argument
                 /\ \E i \in 1..Len(typed) : typed[i] = CmdRoom \o Space \o uiArg'
       /\ uiPc' \in {"swInfo", "swJoin"} =>
            /\ uiPc \in {"swInfo", "swJoin"} => uiArg' = uiArg
            /\ uiPc \notin {"swInfo", "swJoin"} =>
                 /\ uiPc = "select" /\ Len(CmdInputs') < Len(CmdInputs)
                 /\ Head(CmdInputs).CommandType = CmdRoom
       /\ (nCr' # nCr \/ psTopics' \ psTopics # {}) =>
            /\ uiPc = "swJoin"
            /\ psTopics' \ psTopics \subseteq {TopicName(uiArg)}
            /\ nCr' # nCr => cr'[nCr'].RoomName = uiArg]_vars

C16_Witness ==
    /\ typed = <<Hi \o Space \o Yo, CmdRoom \o Space \o Lobby2>>
    /\ enqueued[1] = <<Hi \o Space \o Yo>>
    /\ nCr = 2 /\ cr[2].RoomName = Lobby2

\* C17: no inbound delivery after the close: the messages the multiplexer
\* displayed for a session are, in order, the first of the messages the receive
\* loop of that session decoded and sent on Inbound; none comes from a receive
\* on the closed channel.
C17_NoDeliveryAfterClose ==
    \A s \in Sessions :
        /\ Len(shown[s]) <= Len(delivered[s])
        /\ \A i \in DOMAIN shown[s] : shown[s][i] = delivered[s][i]

\* C18: display name at enqueue time: every envelope the publish loop
\* publishes carries the display name that was current when its text was sent
\* on Outbound, the name its local echo was shown with.
C18_NameAtEnqueue ==
    [][\A s \in Sessions :
         Len(published'[s]) > Len(published[s]) =>
            LET taken == Len(enqueued[s]) - Len(cr[s].Outbound)
                data == published'[s][Len(published'[s])]
            IN Member(data, "sendername") = echoed[s][taken + 1]]_vars

\* a command processCommand answers with an error log
InputError(cmd) ==
    \/ cmd.CommandType \in {CmdRoom, CmdUser} /\ cmd.Argument = <<>>
    \/ cmd.CommandType \notin {CmdExit, CmdClear, CmdRoom, CmdUser}

\* what an input error must leave alone
ErrorFrame ==
    <<active, cr[active].UserName, cr[active].RoomName, cr[active].subCancelled,
      cr[active].topicClosed, cr[active].ctxDone, MessageBox, boxTitle,
      InputLabel, nCr, psTopics, appStopped>>

\* the logs handleEvents has sent on the Logs of s
UiLogs(q, s) ==
    LET sent == SelectSeq(q[s], LAMBDA l : l.by = "ui")
    IN [i \in DOMAIN sent |-> sent[i].log]

\* the steps of an input error: the dispatch decides on one error log and
\* changes nothing, nothing changes while the log waits to be sent, and the
\* send adds that one log and nothing else
InputErrorSteps ==
    /\ (uiPc = "select" /\ Len(CmdInputs') < Len(CmdInputs)
           /\ InputError(Head(CmdInputs))) =>
         /\ uiPc' = "sendLog" /\ uiLog'.Prefix = "error"
         /\ ErrorFrame' = ErrorFrame /\ cr' = cr /\ logged' = logged
         /\ uiArg' = <<>>
    /\ (uiPc' = "sendLog" /\ uiPc # "sendLog") =>
         /\ uiPc = "select" /\ Len(CmdInputs') < Len(CmdInputs)
         /\ InputError(Head(CmdInputs))
    /\ uiPc = "sendLog" =>
         /\ ErrorFrame' = ErrorFrame
         /\ uiPc' \in {"sendLog", "select", "gone"}
         /\ uiPc' = "select" =>
              UiLogs(logged', active) = Append(UiLogs(logged, active), uiLog)
         /\ uiPc' # "select" => UiLogs(logged', active) = UiLogs(logged, active)

\* C19: user-input errors change no state: a room command without argument, a
\* user command without argument and an unrecognized command each emit exactly
\* one error log and leave the active session, the display name, the
\* subscription, the topic and the display buffer as they were; no join is
\* attempted.
C19_InputErrorsChangeNoState ==
    /\ [][InputErrorSteps]_vars
    /\ (uiPc = "sendLog") ~> (uiPc # "sendLog")

\* C20: teardown order of Exit: on every call the subscription is cancelled
\* first, then the topic is closed, and only then the lifecycle context is
\* cancelled; when the call returns the context is cancelled.
C20_TeardownOrder ==
    [][\A s \in Sessions :
         /\ (cr'[s].subCancelled /\ ~cr[s].subCancelled) =>
                ~cr[s].topicClosed /\ ~cr[s].ctxDone
         /\ (cr'[s].topicClosed /\ ~cr[s].topicClosed) =>
                cr[s].subCancelled /\ ~cr[s].ctxDone
         /\ (cr'[s].ctxDone /\ ~cr[s].ctxDone) =>
                cr[s].subCancelled /\ cr[s].topicClosed
         /\ exits'[s] # exits[s] =>
                LET k == (Len(exits[s]) % 3) + 1 IN
                /\ exits'[s] = Append(exits[s], k)
                /\ k = 1 => cr'[s].subCancelled
                /\ k = 2 => cr'[s].subCancelled /\ cr'[s].topicClosed
                /\ k = 3 => /\ cr'[s].subCancelled /\ cr'[s].topicClosed
                            /\ cr'[s].ctxDone /\ apiPc' = "idle"]_vars

C20_Witness ==
    /\ apiPc = "exit3"
    /\ cr[apiSess].subCancelled /\ cr[apiSess].topicClosed /\ ~cr[apiSess].ctxDone
    /\ exits[apiSess] = <<1, 2>>

\* a name a rename command installed: main starts the session as User and no
\* line of the rename path renames back to it
Renamed(name) == name # User

\* the rename command is being taken by handleEvents
RenameStep ==
    /\ uiPc = "select" /\ Len(CmdInputs') < Len(CmdInputs)
    /\ Head(CmdInputs).CommandType = CmdUser
    /\ Head(CmdInputs).Argument # <<>>

\* C21: rename in place: a user command with a non-empty argument n changes
\* only the display name of the active session (and the label showing it): no
\* join, subscribe or exit, and the active session, its topic, subscription,
\* channels and context stay as they were; every message enqueued afterwards is
\* published under n, and a later successful switch creates the new session
\* with display name n.
C21_RenameInPlace ==
    [][/\ RenameStep =>
            LET n == Head(CmdInputs).Argument IN
            /\ cr' = [cr EXCEPT ![active].UserName = n]
            /\ InputLabel' = n \o <<" > ">>
            /\ active' = active /\ nCr' = nCr /\ psTopics' = psTopics
            /\ exits' = exits /\ subPc' = subPc /\ pubPc' = pubPc
            /\ uiPc' = "select" /\ MessageBox' = MessageBox
       /\ \A s \in Sessions :
            Len(published'[s]) > Len(published[s]) =>
                LET name == echoed[s][Len(enqueued[s]) - Len(cr[s].Outbound) + 1]
                    data == published'[s][Len(published'[s])]
                IN Renamed(name) => Member(data, "sendername") = name
       /\ nCr' = nCr + 1 => cr'[nCr'].UserName = cr[active].UserName]_vars

\* session s holds the open handle of topic t
Owns(s, t) == TopicName(cr[s].RoomName) = t /\ ~cr[s].topicClosed

\* C22: topic-handle ownership: every open topic handle that a join obtained
\* from the substrate belongs to a session that the join returned; a join
\* whose subscribe step fails leaves no open handle behind that would make a
\* later join of the same room fail.
C22_TopicHandleOwned ==
    \A t \in psTopics : \E s \in Live : Owns(s, t)
====
